---- MODULE Spec2Model ----
(***************************************************************************)
(* TURN allocation lifecycle of tinyNET (tnet_turn.c): the allocate /      *)
(* refresh / unallocate rounds driven by tnet_turn_send_allocate, the      *)
(* allocation records and the context's list of allocations.               *)
(***************************************************************************)
EXTENDS Integers, Sequences, FiniteSets, TLC

(* ---------------------------------------------------------------------- *)
(* Bounds of the model                                                     *)
(* ---------------------------------------------------------------------- *)
\* Number of allocation records tnet_turn_allocate may create.
MaxAllocs == 3
\* Number of operations (allocate / refresh / unallocate calls) of a run.
MaxRounds == 3
\* Depth the self-invocation of tnet_turn_send_allocate may reach.
MaxDepth == 3
\* Number of operations of a run of the specification with fairness.
MaxLiveRounds == 2

(* ---------------------------------------------------------------------- *)
(* Values                                                                  *)
(* ---------------------------------------------------------------------- *)
\* A C string pointer is a sequence of length 0 (null) or 1 (the string).
NULL == <<>>
Str(s) == <<s>>

TNET_TURN_INVALID_ALLOCATION_ID == 0

SocketTypes == {"dgram", "stream"}
TNET_SOCKET_TYPE_IS_DGRAM(t) == t = "dgram"

\* What a server may put in a response: the realm and nonce of an error
\* response (either may be missing), its code, the lifetime of a success.
Challenges == {<<NULL, NULL>>, <<Str("example.org"), NULL>>,
               <<NULL, Str("abc123")>>, <<Str("example.org"), Str("abc123")>>,
               <<Str("r2"), Str("n2")>>}
ErrorCodes == {401, 500}
Lifetimes == {-1, 0, 600, 3600}

\* Outcome of tnet_stun_send_unreliably: no response, or one response.
Responses ==
    {NULL}
    \cup {<<[error |-> FALSE, code |-> 0, realm |-> NULL, nonce |-> NULL,
             lifetime |-> l]>> : l \in Lifetimes}
    \cup {<<[error |-> TRUE, code |-> 401, realm |-> ch[1], nonce |-> ch[2],
             lifetime |-> -1]>> : ch \in Challenges}
    \cup {<<[error |-> TRUE, code |-> c, realm |-> ch[1], nonce |-> ch[2],
             lifetime |-> -1]>> :
               c \in ErrorCodes \ {401},
               ch \in {<<NULL, NULL>>, <<Str("example.org"), Str("abc123")>>}}

\* ntohl: the four bytes of a 32-bit value in reverse order on a
\* little-endian host, unchanged on a big-endian one.
ntohl(little, x) ==
    IF little
    THEN (x % 256) * 16777216 + ((x \div 256) % 256) * 65536
         + ((x \div 65536) % 256) * 256 + ((x \div 16777216) % 256)
    ELSE x

\* tsk_strrandom: a freshly generated random string; the n-th call yields a
\* string no earlier call yielded.
tsk_strrandom(n) == n

\* TSK_MD5_DIGEST_CALC followed by the memcpy into transaction_id: the digest
\* of the random string, as a term (distinct inputs give distinct digests).
TransactionId(random) == [md5 |-> random]

VARIABLES
    unique_id,      \* static __unique_id of tnet_turn_allocation_create
    ctx,            \* the NAT context: socket_type
    little_endian,  \* byte order of the host
    allocs,         \* allocation records ever created, by address
    allocations,    \* context->allocations: addresses in list order
    op,             \* operation in progress: none/allocate/refresh/unallocate
    pc,             \* position of the operation
    self,           \* address of the record the operation works on (0: null)
    arg,            \* socket_type argument of the running tnet_turn_allocate
    timeout,        \* local `timeout` of the running tnet_turn_unallocate
    ret,            \* local `ret` of tnet_turn_send_allocate
    request,        \* local `request` (NULL or one message)
    response,       \* local `response` (NULL or one message)
    depth,          \* number of nested self-invocations in this round
    sent,           \* requests handed to tnet_stun_send_unreliably this round
    received,       \* outcomes of those sends this round
    freed,          \* number of messages released this round
    created,        \* number of messages constructed this round
    random_count,   \* number of calls of tsk_strrandom so far
    result,         \* value the operation returned (0 until it returns)
    pre,            \* record and registry as they were when the operation began
    returned,       \* results of the tnet_turn_allocate calls, in call order
    rounds,         \* number of operations started
    threads         \* threads running tnet_turn_allocate concurrently

vars == <<unique_id, ctx, little_endian, allocs, allocations, op, pc, self, arg,
          timeout, ret, request, response, depth, sent, received, freed,
          created, random_count, result, pre, returned, rounds, threads>>

\* The threads that call tnet_turn_allocate concurrently on one context.
Threads == {"t1", "t2"}

NoRecord == [id |-> 0, socket_type |-> "dgram", realm |-> NULL, nonce |-> NULL,
             timeout |-> 0, active |-> FALSE, destroyed |-> FALSE]

NoPre == [rec |-> NoRecord, allocations |-> <<>>]

Init ==
    /\ unique_id = 0
    /\ ctx \in [socket_type : SocketTypes]
    /\ little_endian \in BOOLEAN
    /\ allocs = <<>>
    /\ allocations = <<>>
    /\ op = "none"
    /\ pc = "idle"
    /\ self = 0
    /\ arg = "dgram"
    /\ timeout = 0
    /\ ret = -1
    /\ request = NULL
    /\ response = NULL
    /\ depth = 0
    /\ sent = <<>>
    /\ received = <<>>
    /\ freed = 0
    /\ created = 0
    /\ random_count = 0
    /\ result = 0
    /\ pre = NoPre
    /\ returned = <<>>
    /\ rounds = 0
    /\ threads = [t \in Threads |-> [pc |-> "start", reg |-> 0, a |-> 0, ret |-> -1,
                                     outcomes |-> <<>>]]

AtBoundary == pc \in {"idle", "done"}

InList(list, a) == \E i \in 1..Len(list) : list[i] = a

\* tsk_list_push_back_data
tsk_list_push_back_data(list, a) == Append(list, a)

\* tsk_list_remove_item_by_data
tsk_list_remove_item_by_data(list, a) == SelectSeq(list, LAMBDA x : x # a)

\* State shared by the start of every round.
BeginRound(a, name) ==
    /\ op' = name
    /\ pc' = "build"
    /\ self' = a
    /\ ret' = -1
    /\ request' = NULL
    /\ response' = NULL
    /\ depth' = 0
    /\ sent' = <<>>
    /\ received' = <<>>
    /\ freed' = 0
    /\ created' = 0
    /\ rounds' = rounds + 1
    /\ result' = 0

(* ---------------------------------------------------------------------- *)
(* tnet_turn_allocation_create                                             *)
(* ---------------------------------------------------------------------- *)
\* The counter of line 278 without `static`: every call starts from 0.
NextUniqueId_notStatic(u) == 0 + 1

\* Line 283: ++__unique_id.
NextUniqueId(u) == u + 1

\* Lines 283-295: the fields of a record just constructed.
tnet_turn_allocation_create(id, socket_type) ==
    [id |-> id, socket_type |-> socket_type, realm |-> NULL, nonce |-> NULL,
     timeout |-> 600, active |-> FALSE, destroyed |-> FALSE]

\* Lines 300-316: the strings of the record are freed and set to null, then
\* the record itself is released.
tnet_turn_allocation_destroy(alloc) ==
    [alloc EXCEPT !.destroyed = TRUE, !.realm = NULL, !.nonce = NULL]

(* ---------------------------------------------------------------------- *)
(* tnet_turn_allocate: entry up to the call of tnet_turn_send_allocate     *)
(* ---------------------------------------------------------------------- *)
tnet_turn_allocate_call ==
    /\ AtBoundary
    /\ rounds < MaxRounds
    /\ Len(allocs) < MaxAllocs
    /\ \E socket_type \in SocketTypes :
        /\ arg' = socket_type
        /\ unique_id' = NextUniqueId(unique_id)
        /\ allocs' = Append(allocs,
               tnet_turn_allocation_create(unique_id', ctx.socket_type))
        /\ pre' = [rec |-> tnet_turn_allocation_create(unique_id', ctx.socket_type),
                   allocations |-> allocations]
        /\ BeginRound(Len(allocs) + 1, "allocate")
    /\ UNCHANGED <<ctx, little_endian, threads, allocations, timeout, random_count,
                   returned>>

(* ---------------------------------------------------------------------- *)
(* tnet_turn_send_allocate                                                 *)
(* ---------------------------------------------------------------------- *)
\* Lines 61-105 with line 70 always choosing stun_allocate_request.
BuildRequest_alwaysAllocate(alloc, little, random) ==
    [type |-> "stun_allocate_request",
     transaction_id |-> TransactionId(random),
     realm |-> alloc.realm,
     nonce |-> alloc.nonce,
     reqtrans |-> IF TNET_SOCKET_TYPE_IS_DGRAM(alloc.socket_type)
                  THEN "TNET_PROTO_UDP" ELSE "TNET_PROTO_TCP",
     lifetime |-> ntohl(little, alloc.timeout)]

\* Lines 61-105: the request built for one attempt on `alloc`.
BuildRequest(alloc, little, random) ==
    [type |-> IF alloc.active THEN "stun_refresh_request"
                              ELSE "stun_allocate_request",
     transaction_id |-> TransactionId(random),
     realm |-> alloc.realm,
     nonce |-> alloc.nonce,
     reqtrans |-> IF TNET_SOCKET_TYPE_IS_DGRAM(alloc.socket_type)
                  THEN "TNET_PROTO_UDP" ELSE "TNET_PROTO_TCP",
     lifetime |-> ntohl(little, alloc.timeout)]

\* Line 118 without the test of realm: a 401 with a nonce is a challenge.
IsChallenge_nonceOnly(resp) ==
    /\ resp.error
    /\ resp.code = 401
    /\ resp.nonce # NULL

\* Line 118: the response is a 401 carrying realm and nonce.
IsChallenge(resp) ==
    /\ resp.error
    /\ resp.code = 401
    /\ resp.realm # NULL
    /\ resp.nonce # NULL

\* Line 120 without the test of allocation->nonce: every challenge retries.
HandleResponse_alwaysRetry(alloc, resp) ==
    IF resp = NULL
    THEN [retry |-> FALSE, ret |-> -4, alloc |-> alloc]
    ELSE IF resp[1].error
    THEN IF IsChallenge(resp[1])
         THEN [retry |-> TRUE, ret |-> -1,
               alloc |-> [alloc EXCEPT !.nonce = resp[1].nonce,
                                       !.realm = resp[1].realm]]
         ELSE [retry |-> FALSE, ret |-> -2, alloc |-> alloc]
    ELSE [retry |-> FALSE, ret |-> 0,
          alloc |-> IF resp[1].lifetime >= 0
                    THEN [alloc EXCEPT !.timeout = resp[1].lifetime]
                    ELSE alloc]

\* Lines 120-131 without the retry: a first challenge is cached but the
\* function returns instead of invoking itself.
HandleResponse_noRetry(alloc, resp) ==
    IF resp = NULL
    THEN [retry |-> FALSE, ret |-> -4, alloc |-> alloc]
    ELSE IF resp[1].error
    THEN IF IsChallenge(resp[1])
         THEN IF alloc.nonce = NULL
              THEN [retry |-> FALSE, ret |-> -3,
                    alloc |-> [alloc EXCEPT !.nonce = resp[1].nonce,
                                            !.realm = resp[1].realm]]
              ELSE [retry |-> FALSE, ret |-> -3, alloc |-> alloc]
         ELSE [retry |-> FALSE, ret |-> -2, alloc |-> alloc]
    ELSE [retry |-> FALSE, ret |-> 0,
          alloc |-> IF resp[1].lifetime >= 0
                    THEN [alloc EXCEPT !.timeout = resp[1].lifetime]
                    ELSE alloc]

\* Lines 122-123 moved before the test of line 120: a challenge on a record
\* that holds a nonce still ends in -3 but overwrites the cached values.
HandleResponse_overwrite(alloc, resp) ==
    IF resp = NULL
    THEN [retry |-> FALSE, ret |-> -4, alloc |-> alloc]
    ELSE IF resp[1].error
    THEN IF IsChallenge(resp[1])
         THEN IF alloc.nonce = NULL
              THEN [retry |-> TRUE, ret |-> -1,
                    alloc |-> [alloc EXCEPT !.nonce = resp[1].nonce,
                                            !.realm = resp[1].realm]]
              ELSE [retry |-> FALSE, ret |-> -3,
                    alloc |-> [alloc EXCEPT !.nonce = resp[1].nonce,
                                            !.realm = resp[1].realm]]
         ELSE [retry |-> FALSE, ret |-> -2, alloc |-> alloc]
    ELSE [retry |-> FALSE, ret |-> 0,
          alloc |-> IF resp[1].lifetime >= 0
                    THEN [alloc EXCEPT !.timeout = resp[1].lifetime]
                    ELSE alloc]

\* Line 146 with lifetime>0 for lifetime>=0: a granted 0 is not stored.
HandleResponse_positiveLifetime(alloc, resp) ==
    IF resp = NULL
    THEN [retry |-> FALSE, ret |-> -4, alloc |-> alloc]
    ELSE IF resp[1].error
    THEN IF IsChallenge(resp[1])
         THEN IF alloc.nonce = NULL
              THEN [retry |-> TRUE, ret |-> -1,
                    alloc |-> [alloc EXCEPT !.nonce = resp[1].nonce,
                                            !.realm = resp[1].realm]]
              ELSE [retry |-> FALSE, ret |-> -3, alloc |-> alloc]
         ELSE [retry |-> FALSE, ret |-> -2, alloc |-> alloc]
    ELSE [retry |-> FALSE, ret |-> 0,
          alloc |-> IF resp[1].lifetime > 0
                    THEN [alloc EXCEPT !.timeout = resp[1].lifetime]
                    ELSE alloc]

\* Line 155 with -2 for -4: no response and a rejection return the same code.
HandleResponse_sameCode(alloc, resp) ==
    IF resp = NULL
    THEN [retry |-> FALSE, ret |-> -2, alloc |-> alloc]
    ELSE IF resp[1].error
    THEN IF IsChallenge(resp[1])
         THEN IF alloc.nonce = NULL
              THEN [retry |-> TRUE, ret |-> -1,
                    alloc |-> [alloc EXCEPT !.nonce = resp[1].nonce,
                                            !.realm = resp[1].realm]]
              ELSE [retry |-> FALSE, ret |-> -3, alloc |-> alloc]
         ELSE [retry |-> FALSE, ret |-> -2, alloc |-> alloc]
    ELSE [retry |-> FALSE, ret |-> 0,
          alloc |-> IF resp[1].lifetime >= 0
                    THEN [alloc EXCEPT !.timeout = resp[1].lifetime]
                    ELSE alloc]

\* Lines 120-131 without line 123: the nonce is cached, the realm is not.
HandleResponse_nonceOnly(alloc, resp) ==
    IF resp = NULL
    THEN [retry |-> FALSE, ret |-> -4, alloc |-> alloc]
    ELSE IF resp[1].error
    THEN IF IsChallenge(resp[1])
         THEN IF alloc.nonce = NULL
              THEN [retry |-> TRUE, ret |-> -1,
                    alloc |-> [alloc EXCEPT !.nonce = resp[1].nonce]]
              ELSE [retry |-> FALSE, ret |-> -3, alloc |-> alloc]
         ELSE [retry |-> FALSE, ret |-> -2, alloc |-> alloc]
    ELSE [retry |-> FALSE, ret |-> 0,
          alloc |-> IF resp[1].lifetime >= 0
                    THEN [alloc EXCEPT !.timeout = resp[1].lifetime]
                    ELSE alloc]

\* Lines 110-156: what the attempt does with the outcome of the send.
\* retry: the function invokes itself; otherwise ret is its return value.
HandleResponse(alloc, resp) ==
    IF resp = NULL
    THEN [retry |-> FALSE, ret |-> -4, alloc |-> alloc]
    ELSE IF resp[1].error
    THEN IF IsChallenge(resp[1])
         THEN IF alloc.nonce = NULL
              THEN [retry |-> TRUE, ret |-> -1,
                    alloc |-> [alloc EXCEPT !.nonce = resp[1].nonce,
                                            !.realm = resp[1].realm]]
              ELSE [retry |-> FALSE, ret |-> -3, alloc |-> alloc]
         ELSE [retry |-> FALSE, ret |-> -2, alloc |-> alloc]
    ELSE [retry |-> FALSE, ret |-> 0,
          alloc |-> IF resp[1].lifetime >= 0
                    THEN [alloc EXCEPT !.timeout = resp[1].lifetime]
                    ELSE alloc]

\* Lines 59-109 without the test of line 107: the request is sent whatever
\* the socket type of the record.
send_allocate_build_noTest ==
    /\ pc = "build"
    /\ ret' = -1
    /\ random_count' = random_count + 1
    /\ request' = <<BuildRequest(allocs[self], little_endian,
                                 tsk_strrandom(random_count + 1))>>
    /\ created' = created + 1
    /\ pc' = "send"
    /\ UNCHANGED <<unique_id, ctx, little_endian, threads, allocs, allocations, op, self,
                   arg, timeout, response, depth, sent, received, freed,
                   result, pre, returned, rounds>>

\* Lines 59-107: build the request, then take the datagram branch or skip it.
send_allocate_build ==
    /\ pc = "build"
    /\ ret' = -1
    /\ random_count' = random_count + 1
    /\ request' = <<BuildRequest(allocs[self], little_endian,
                                 tsk_strrandom(random_count + 1))>>
    /\ created' = created + 1
    /\ pc' = IF TNET_SOCKET_TYPE_IS_DGRAM(allocs[self].socket_type)
             THEN "send" ELSE "exit"
    /\ UNCHANGED <<unique_id, ctx, little_endian, threads, allocs, allocations, op, self,
                   arg, timeout, response, depth, sent, received, freed,
                   result, pre, returned, rounds>>

\* Line 109: tnet_stun_send_unreliably returns a response or none.
send_allocate_send ==
    /\ pc = "send"
    /\ \E r \in Responses :
        /\ response' = r
        /\ received' = Append(received, r)
        /\ created' = created + Len(r)
    /\ sent' = Append(sent, request[1])
    /\ pc' = "classify"
    /\ UNCHANGED <<unique_id, ctx, little_endian, threads, allocs, allocations, op, self,
                   arg, timeout, ret, request, depth, freed, random_count,
                   result, pre, returned, rounds>>

\* Lines 110-157 without line 127: the first request is still live when the
\* function invokes itself and is never released.
send_allocate_classify_leak ==
    /\ pc = "classify"
    /\ LET h == HandleResponse(allocs[self], response) IN
        /\ allocs' = [allocs EXCEPT ![self] = h.alloc]
        /\ IF h.retry
           THEN /\ depth < MaxDepth
                /\ depth' = depth + 1
                /\ request' = NULL
                /\ freed' = freed + Len(response)
                /\ pc' = "build"
                /\ ret' = ret
           ELSE /\ ret' = h.ret
                /\ freed' = freed + Len(response)
                /\ pc' = "exit"
                /\ UNCHANGED <<depth, request>>
    /\ response' = NULL
    /\ UNCHANGED <<unique_id, ctx, little_endian, threads, allocations, op, self, arg,
                   timeout, sent, received, created, random_count, result, pre,
                   returned, rounds>>

\* Lines 110-157: classify; on an accepted challenge release both messages
\* and invoke the function again, otherwise set ret and release the response.
send_allocate_classify ==
    /\ pc = "classify"
    /\ LET h == HandleResponse(allocs[self], response) IN
        /\ allocs' = [allocs EXCEPT ![self] = h.alloc]
        /\ IF h.retry
           THEN /\ depth < MaxDepth
                /\ depth' = depth + 1
                /\ request' = NULL
                /\ freed' = freed + Len(response) + Len(request)
                /\ pc' = "build"
                /\ ret' = ret
           ELSE /\ ret' = h.ret
                /\ freed' = freed + Len(response)
                /\ pc' = "exit"
                /\ UNCHANGED <<depth, request>>
    /\ response' = NULL
    /\ UNCHANGED <<unique_id, ctx, little_endian, threads, allocations, op, self, arg,
                   timeout, sent, received, created, random_count, result, pre,
                   returned, rounds>>

\* Lines 161-162: release the request and return ret (through every
\* enclosing invocation, each of which returns the value unchanged).
send_allocate_exit ==
    /\ pc = "exit"
    /\ request' = NULL
    /\ freed' = freed + Len(request)
    /\ pc' = "return"
    /\ UNCHANGED <<unique_id, ctx, little_endian, threads, allocs, allocations, op, self,
                   arg, timeout, ret, response, depth, sent, received, created,
                   random_count, result, pre, returned, rounds>>

\* The kind of outcome of the operation in progress, read off the branches
\* of lines 107-156 from what the round received: a null argument, a record
\* that is not datagram, no response, a success response, a 401 with realm
\* and nonce that was not retried, any other error.
OutcomeKind(a, alloc, outcomes) ==
    IF a = 0 THEN "InvalidArgument"
    ELSE IF ~TNET_SOCKET_TYPE_IS_DGRAM(alloc.socket_type)
    THEN "UnsupportedTransport"
    ELSE IF outcomes = <<>> THEN "Pending"
    ELSE LET last == outcomes[Len(outcomes)] IN
         IF last = NULL THEN "TransportFailure"
         ELSE IF ~last[1].error THEN "Success"
         ELSE IF last[1].code = 401 /\ last[1].realm # NULL
                 /\ last[1].nonce # NULL
         THEN "StaleCredentials"
         ELSE "Rejected"

(* ---------------------------------------------------------------------- *)
(* tnet_turn_allocate: after tnet_turn_send_allocate returned              *)
(* ---------------------------------------------------------------------- *)
\* Lines 183-185 without the push: the record is returned but not listed.
AllocateOutcome_noPush(r, a, alloc, list) ==
    IF r # 0
    THEN [id |-> TNET_TURN_INVALID_ALLOCATION_ID,
          alloc |-> tnet_turn_allocation_destroy(alloc),
          list |-> list]
    ELSE [id |-> alloc.id,
          alloc |-> [alloc EXCEPT !.active = TRUE],
          list |-> list]

\* Lines 176-180 with the push before the test of ret: a failed record is
\* released but stays in the list.
AllocateOutcome_pushFirst(r, a, alloc, list) ==
    IF r # 0
    THEN [id |-> TNET_TURN_INVALID_ALLOCATION_ID,
          alloc |-> tnet_turn_allocation_destroy(alloc),
          list |-> tsk_list_push_back_data(list, a)]
    ELSE [id |-> alloc.id,
          alloc |-> [alloc EXCEPT !.active = TRUE],
          list |-> tsk_list_push_back_data(list, a)]

\* Lines 176-189.
AllocateOutcome(r, a, alloc, list) ==
    IF r # 0
    THEN [id |-> TNET_TURN_INVALID_ALLOCATION_ID,
          alloc |-> tnet_turn_allocation_destroy(alloc),
          list |-> list]
    ELSE [id |-> alloc.id,
          alloc |-> [alloc EXCEPT !.active = TRUE],
          list |-> tsk_list_push_back_data(list, a)]

tnet_turn_allocate_return ==
    /\ arg' = "dgram"
    /\ pc = "return"
    /\ op = "allocate"
    /\ LET o == AllocateOutcome(ret, self, allocs[self], allocations) IN
        /\ result' = o.id
        /\ allocs' = [allocs EXCEPT ![self] = o.alloc]
        /\ allocations' = o.list
        /\ returned' = Append(returned,
               [ok |-> ret = 0, id |-> o.id,
                kind |-> OutcomeKind(self, allocs[self], received)])
    /\ pc' = "done"
    /\ UNCHANGED <<unique_id, ctx, little_endian, threads, op, self, timeout, ret,
                   request, response, depth, sent, received, freed, created,
                   random_count, pre, rounds>>

\* Lines 167-170, 189: a null context returns the invalid id at once.
tnet_turn_allocate_null ==
    /\ ret' = -1
    /\ AtBoundary
    /\ rounds < MaxRounds
    /\ op' = "allocate"
    /\ self' = 0
    /\ pc' = "done"
    /\ result' = TNET_TURN_INVALID_ALLOCATION_ID
    /\ returned' = Append(returned,
                         [ok |-> FALSE, id |-> TNET_TURN_INVALID_ALLOCATION_ID,
                          kind |-> OutcomeKind(0, NoRecord, <<>>)])
    /\ pre' = [rec |-> NoRecord, allocations |-> allocations]
    /\ sent' = <<>>
    /\ received' = <<>>
    /\ freed' = 0
    /\ created' = 0
    /\ depth' = 0
    /\ rounds' = rounds + 1
    /\ UNCHANGED <<unique_id, ctx, little_endian, threads, allocs, allocations, arg,
                   timeout, request, response, random_count>>

(* ---------------------------------------------------------------------- *)
(* Refresh: tnet_turn_send_allocate called on a registered record          *)
(* ---------------------------------------------------------------------- *)
refresh_call ==
    /\ AtBoundary
    /\ rounds < MaxRounds
    /\ \E a \in 1..Len(allocs) :
        /\ InList(allocations, a)
        /\ pre' = [rec |-> allocs[a], allocations |-> allocations]
        /\ BeginRound(a, "refresh")
    /\ UNCHANGED <<unique_id, ctx, little_endian, threads, allocs, allocations, arg,
                   timeout, random_count, returned>>

refresh_return ==
    /\ pc = "return"
    /\ op = "refresh"
    /\ result' = ret
    /\ pc' = "done"
    /\ UNCHANGED <<unique_id, ctx, little_endian, threads, allocs, allocations, op, self,
                   arg, timeout, ret, request, response, depth, sent, received,
                   freed, created, random_count, pre, returned, rounds>>

(* ---------------------------------------------------------------------- *)
(* tnet_turn_unallocate                                                    *)
(* ---------------------------------------------------------------------- *)
\* Lines 196-202: save the timeout, set it to 0, call tnet_turn_send_allocate.
tnet_turn_unallocate_call ==
    /\ AtBoundary
    /\ rounds < MaxRounds
    /\ \E a \in 1..Len(allocs) :
        /\ InList(allocations, a)
        /\ pre' = [rec |-> allocs[a], allocations |-> allocations]
        /\ timeout' = allocs[a].timeout
        /\ allocs' = [allocs EXCEPT ![a].timeout = 0]
        /\ BeginRound(a, "unallocate")
    /\ UNCHANGED <<unique_id, ctx, little_endian, threads, allocations, arg,
                   random_count, returned>>

\* Lines 204-207 without line 206: the timeout is not restored.
UnallocateOutcome_noRestore(r, a, alloc, saved, list) ==
    IF r # 0
    THEN [result |-> -1,
          alloc |-> alloc,
          list |-> list]
    ELSE [result |-> 0,
          alloc |-> alloc,
          list |-> tsk_list_remove_item_by_data(list, a)]

\* Line 211 moved before the test of ret: the record leaves the list even
\* when the round failed.
UnallocateOutcome_removeFirst(r, a, alloc, saved, list) ==
    IF r # 0
    THEN [result |-> -1,
          alloc |-> [alloc EXCEPT !.timeout = saved],
          list |-> tsk_list_remove_item_by_data(list, a)]
    ELSE [result |-> 0,
          alloc |-> alloc,
          list |-> tsk_list_remove_item_by_data(list, a)]

\* Lines 202-213.
UnallocateOutcome(r, a, alloc, saved, list) ==
    IF r # 0
    THEN [result |-> -1,
          alloc |-> [alloc EXCEPT !.timeout = saved],
          list |-> list]
    ELSE [result |-> 0,
          alloc |-> alloc,
          list |-> tsk_list_remove_item_by_data(list, a)]

tnet_turn_unallocate_return ==
    /\ timeout' = 0
    /\ pc = "return"
    /\ op = "unallocate"
    /\ LET o == UnallocateOutcome(ret, self, allocs[self], timeout, allocations) IN
        /\ result' = o.result
        /\ allocs' = [allocs EXCEPT ![self] = o.alloc]
        /\ allocations' = o.list
    /\ pc' = "done"
    /\ UNCHANGED <<unique_id, ctx, little_endian, threads, op, self, arg, ret,
                   request, response, depth, sent, received, freed, created,
                   random_count, pre, returned, rounds>>

\* Lines 196, 215: a null context or a null record returns -1 at once.
tnet_turn_unallocate_null ==
    /\ ret' = -1
    /\ AtBoundary
    /\ rounds < MaxRounds
    /\ op' = "unallocate"
    /\ self' = 0
    /\ pc' = "done"
    /\ result' = -1
    /\ pre' = [rec |-> NoRecord, allocations |-> allocations]
    /\ sent' = <<>>
    /\ received' = <<>>
    /\ freed' = 0
    /\ created' = 0
    /\ depth' = 0
    /\ rounds' = rounds + 1
    /\ UNCHANGED <<unique_id, ctx, little_endian, threads, allocs, allocations, arg,
                   timeout, request, response, random_count, returned>>

(* ---------------------------------------------------------------------- *)
(* The program                                                             *)
(* ---------------------------------------------------------------------- *)
Next ==
    \/ tnet_turn_allocate_call
    \/ tnet_turn_allocate_return
    \/ tnet_turn_allocate_null
    \/ refresh_call
    \/ refresh_return
    \/ tnet_turn_unallocate_call
    \/ tnet_turn_unallocate_return
    \/ tnet_turn_unallocate_null
    \/ send_allocate_build
    \/ send_allocate_send
    \/ send_allocate_classify
    \/ send_allocate_exit

Spec == Init /\ [][Next]_vars

\* The steps of a call that is running: the code is synchronous, so a call
\* that can take its next step takes it (the blocking send returns).
RoundStep ==
    \/ send_allocate_build
    \/ send_allocate_send
    \/ send_allocate_classify
    \/ send_allocate_exit
    \/ tnet_turn_allocate_return
    \/ refresh_return
    \/ tnet_turn_unallocate_return

\* The program with callers that start at most MaxLiveRounds operations.
LiveNext ==
    \/ (rounds < MaxLiveRounds /\ tnet_turn_allocate_call)
    \/ (rounds < MaxLiveRounds /\ tnet_turn_allocate_null)
    \/ (rounds < MaxLiveRounds /\ refresh_call)
    \/ (rounds < MaxLiveRounds /\ tnet_turn_unallocate_call)
    \/ (rounds < MaxLiveRounds /\ tnet_turn_unallocate_null)
    \/ tnet_turn_allocate_return
    \/ refresh_return
    \/ tnet_turn_unallocate_return
    \/ send_allocate_build
    \/ send_allocate_send
    \/ send_allocate_classify
    \/ send_allocate_exit

LiveSpec == Init /\ [][LiveNext]_vars /\ WF_vars(RoundStep)

(* ---------------------------------------------------------------------- *)
(* Two threads in tnet_turn_allocate on the same context                   *)
(* ---------------------------------------------------------------------- *)
\* What the sequential operations own; the threads below leave it alone.
seqvars == <<op, pc, self, arg, timeout, ret, request, response, depth, sent,
             received, freed, created, result, pre, rounds>>

\* Lines 107-162 run to the end on a record only the calling thread can
\* reach: r1 answers the first request, r2 the retried one.
RunRound(alloc, r1, r2) ==
    IF ~TNET_SOCKET_TYPE_IS_DGRAM(alloc.socket_type)
    THEN [ret |-> -1, alloc |-> alloc, outcomes |-> <<>>]
    ELSE LET h1 == HandleResponse(alloc, r1) IN
         IF h1.retry
         THEN LET h2 == HandleResponse(h1.alloc, r2) IN
              [ret |-> h2.ret, alloc |-> h2.alloc, outcomes |-> <<r1, r2>>]
         ELSE [ret |-> h1.ret, alloc |-> h1.alloc, outcomes |-> <<r1>>]

\* Line 283, first half of ++__unique_id: the thread loads the counter.
thread_load(t) ==
    /\ threads[t].pc = "start"
    /\ threads' = [threads EXCEPT ![t].pc = "loaded", ![t].reg = unique_id]
    /\ UNCHANGED <<unique_id, ctx, little_endian, allocs, allocations,
                   random_count, returned, seqvars>>

\* Line 283, second half: the thread stores the incremented value it loaded
\* and gives it to the record (lines 283-295).
thread_store(t) ==
    /\ threads[t].pc = "loaded"
    /\ unique_id' = NextUniqueId(threads[t].reg)
    /\ allocs' = Append(allocs,
           tnet_turn_allocation_create(NextUniqueId(threads[t].reg),
                                       ctx.socket_type))
    /\ threads' = [threads EXCEPT ![t].pc = "created", ![t].a = Len(allocs) + 1]
    /\ UNCHANGED <<ctx, little_endian, allocations, random_count, returned,
                   seqvars>>

\* Line 176: the round on the thread's own record.
thread_round(t) ==
    /\ threads[t].pc = "created"
    /\ \E r1, r2 \in Responses :
        LET o == RunRound(allocs[threads[t].a], r1, r2) IN
        /\ allocs' = [allocs EXCEPT ![threads[t].a] = o.alloc]
        /\ threads' = [threads EXCEPT ![t].pc = "returned", ![t].ret = o.ret,
                                      ![t].outcomes = o.outcomes]
        /\ random_count' = random_count + (IF Len(o.outcomes) = 2 THEN 2 ELSE 1)
    /\ UNCHANGED <<unique_id, ctx, little_endian, allocations, returned, seqvars>>

\* Lines 176-189: free the record or register it, and return.
thread_return(t) ==
    /\ threads[t].pc = "returned"
    /\ LET a == threads[t].a
           o == AllocateOutcome(threads[t].ret, a, allocs[a], allocations) IN
        /\ allocs' = [allocs EXCEPT ![a] = o.alloc]
        /\ allocations' = o.list
        /\ returned' = Append(returned,
               [ok |-> threads[t].ret = 0, id |-> o.id,
                kind |-> OutcomeKind(a, allocs[a], threads[t].outcomes)])
    /\ threads' = [threads EXCEPT ![t].pc = "done", ![t].outcomes = <<>>]
    /\ UNCHANGED <<unique_id, ctx, little_endian, random_count, seqvars>>

ConcNext ==
    \E t \in Threads :
        \/ thread_load(t)
        \/ thread_store(t)
        \/ thread_round(t)
        \/ thread_return(t)

ConcSpec == Init /\ [][ConcNext]_vars

TypeOK ==
    /\ unique_id \in 0..MaxAllocs
    /\ pc \in {"idle", "build", "send", "classify", "exit", "return", "done"}
    /\ op \in {"none", "allocate", "refresh", "unallocate"}
    /\ self \in 0..Len(allocs)
    /\ Len(request) <= 1
    /\ Len(response) <= 1

(* ---------------------------------------------------------------------- *)
(* Properties                                                              *)
(* ---------------------------------------------------------------------- *)
\* The round of tnet_turn_send_allocate has returned to its caller.
RoundOver == pc \in {"return", "done"} /\ self # 0

\* The k-th outcome of this round is a 401 carrying realm and nonce.
ChallengeAt(k) ==
    /\ k <= Len(received)
    /\ received[k] # NULL
    /\ IsChallenge(received[k][1])

\* The last response of this round (the round received at least one).
LastResponse == received[Len(received)][1]

\* C1: one logical round sends at most two requests and invokes itself (the
\* RETRY state) at most once, whatever the server answers.
C1_AtMostOneRetry ==
    /\ Len(sent) <= 2
    /\ depth <= 1
    /\ Len(sent) <= depth + 1

\* A round whose retried request was itself answered by a challenge is over.
C1_Witness ==
    /\ RoundOver
    /\ depth = 1
    /\ Len(sent) = 2
    /\ ChallengeAt(2)

\* C2: when the first response of a round is a 401 with realm and nonce and
\* the record held no nonce, exactly one further request is sent, it carries
\* the realm and nonce just cached on the record, and its transaction id
\* differs from the first request's.
C2_ExactlyOneRetry ==
    (RoundOver /\ ChallengeAt(1) /\ pre.rec.nonce = NULL) =>
        /\ Len(sent) = 2
        /\ depth = 1
        /\ ~allocs[self].destroyed =>
               /\ allocs[self].realm = received[1][1].realm
               /\ allocs[self].nonce = received[1][1].nonce
        /\ sent[1].realm = NULL /\ sent[1].nonce = NULL
        /\ sent[2].realm = received[1][1].realm
        /\ sent[2].nonce = received[1][1].nonce
        /\ sent[2].transaction_id # sent[1].transaction_id

\* A refresh round was challenged on a record without a nonce and retried.
C2_Witness ==
    /\ RoundOver
    /\ op = "refresh"
    /\ ChallengeAt(1)
    /\ pre.rec.nonce = NULL
    /\ Len(sent) = 2

\* C3: a 401 with realm and nonce arriving while the record holds a nonce
\* makes the attempt end with ret = -3, leaves the record as it is, and no
\* request is sent from then on until the round has returned -3.
C3_StaleCredentials ==
    [][ /\ (/\ pc = "classify"
            /\ response # NULL
            /\ IsChallenge(response[1])
            /\ allocs[self].nonce # NULL)
           => (/\ pc' = "exit"
               /\ ret' = -3
               /\ allocs'[self] = allocs[self]
               /\ sent' = sent)
        /\ (pc \in {"exit", "return"} /\ ret = -3)
           => (/\ sent' = sent
               /\ ret' = -3
               /\ pc' \in {"return", "done"}
               /\ ~allocs'[self].destroyed =>
                      /\ allocs'[self].realm = allocs[self].realm
                      /\ allocs'[self].nonce = allocs[self].nonce) ]_vars

\* A round returned -3 after a second challenge whose realm and nonce differ
\* from the ones the record keeps.
C3_Witness ==
    /\ pc = "return"
    /\ ret = -3
    /\ ChallengeAt(2)
    /\ received[2][1].nonce # allocs[self].nonce
    /\ received[2][1].realm # allocs[self].realm
    /\ allocs[self].nonce = received[1][1].nonce

\* C4: a round returns -3 only after the second 401 of that same round: the
\* first 401 carrying realm and nonce of every round is answered by a retry.
C4_StaleOnlyOnSecond ==
    /\ (RoundOver /\ ret = -3) => Len(received) = 2
    /\ (RoundOver /\ ChallengeAt(1)) => Len(sent) = 2

\* C5: a successful allocate round leaves the record active, appended to the
\* list, and returns the record's id, which is not the invalid id; the
\* stored timeout is the granted lifetime when that is >= 0.
C5_AllocateSuccess ==
    (pc = "done" /\ op = "allocate" /\ self # 0 /\ ret = 0) =>
        /\ allocs[self].active
        /\ ~allocs[self].destroyed
        /\ allocations = Append(pre.allocations, self)
        /\ result = allocs[self].id
        /\ result # TNET_TURN_INVALID_ALLOCATION_ID
        /\ LastResponse.lifetime >= 0
               => allocs[self].timeout = LastResponse.lifetime

\* An allocate succeeded after a challenge, the server granting 3600.
C5_Witness ==
    /\ pc = "done" /\ op = "allocate" /\ self # 0 /\ ret = 0
    /\ ChallengeAt(1)
    /\ Len(received) = 2
    /\ allocs[self].timeout = 3600
    /\ allocs[self].realm = Str("example.org")
    /\ allocs[self].nonce = Str("abc123")

\* C6: a failed allocate round returns the invalid id, releases the record
\* it created and leaves the list as it was before the call.
C6_AllocateFailure ==
    (pc = "done" /\ op = "allocate" /\ self # 0 /\ ret # 0) =>
        /\ result = TNET_TURN_INVALID_ALLOCATION_ID
        /\ allocs[self].destroyed
        /\ allocations = pre.allocations
        /\ \A i \in 1..Len(allocations) : allocations[i] # self

\* An allocate failed on two challenges while the list held a record.
C6_Witness ==
    /\ pc = "done" /\ op = "allocate" /\ self # 0
    /\ ret = -3
    /\ ChallengeAt(1) /\ ChallengeAt(2)
    /\ Len(allocations) = 1

\* C7: a failed unallocate leaves the record's timeout at its value before
\* the call, the record in the list, and returns failure.
C7_UnallocateFailure ==
    (pc = "done" /\ op = "unallocate" /\ self # 0 /\ ret # 0) =>
        /\ allocs[self].timeout = pre.rec.timeout
        /\ InList(allocations, self)
        /\ allocations = pre.allocations
        /\ result = -1

\* An unallocate of a record with timeout 3600 failed after a retry.
C7_Witness ==
    /\ pc = "done" /\ op = "unallocate" /\ self # 0
    /\ ret # 0
    /\ Len(sent) = 2
    /\ pre.rec.timeout = 3600

\* C8: after a failed refresh or unallocate every field of the record and
\* the list equal their values before the call.
C8_FailureRestoresRecord ==
    (pc = "done" /\ op \in {"refresh", "unallocate"} /\ self # 0 /\ ret # 0) =>
        /\ allocs[self] = pre.rec
        /\ allocations = pre.allocations

\* C9: a successful refresh round stores the granted lifetime when it is
\* >= 0 and keeps the previous timeout when it is negative.
C9_RefreshSuccess ==
    (RoundOver /\ op = "refresh" /\ ret = 0) =>
        allocs[self].timeout = IF LastResponse.lifetime >= 0
                               THEN LastResponse.lifetime
                               ELSE pre.rec.timeout

\* A refresh of a record with timeout 3600 succeeded with a negative lifetime.
C9_Witness ==
    /\ pc = "done" /\ op = "refresh" /\ ret = 0
    /\ LastResponse.lifetime < 0
    /\ pre.rec.timeout = 3600

\* C10: the ids returned by successful allocate calls are not the invalid id
\* and strictly increase in call order; the records ever created, released
\* ones included, have pairwise distinct ids that follow creation order.
C10_UniqueIncreasingIds ==
    /\ \A i \in 1..Len(returned) :
           returned[i].ok => returned[i].id # TNET_TURN_INVALID_ALLOCATION_ID
    /\ \A i, j \in 1..Len(returned) :
           (i < j /\ returned[i].ok /\ returned[j].ok)
               => returned[i].id < returned[j].id
    /\ \A a, b \in 1..Len(allocs) : a < b => allocs[a].id < allocs[b].id
    /\ \A i \in 1..Len(returned) : \A a \in 1..Len(allocs) :
           (returned[i].ok /\ allocs[a].destroyed)
               => returned[i].id # allocs[a].id

\* Three allocate calls: success, failure, success; the failed one used an id.
C10_Witness ==
    /\ Len(returned) = 3
    /\ returned[1].ok
    /\ ~returned[2].ok
    /\ returned[3].ok
    /\ returned[3].id > returned[1].id + 1
    /\ Len(allocs) = 3

\* C11: a record enters the list exactly when its allocate round succeeded
\* and leaves it exactly when an unallocate round on it succeeded; nothing
\* else changes the list, and every listed record is active and not released.
C11_RegistryMembership ==
    /\ [](\A i \in 1..Len(allocations) :
              /\ allocs[allocations[i]].active
              /\ ~allocs[allocations[i]].destroyed
              /\ \A j \in 1..Len(allocations) :
                     i # j => allocations[i] # allocations[j])
    /\ [][ \A a \in 1..Len(allocs') :
              /\ (InList(allocations', a) /\ ~InList(allocations, a))
                     <=> (pc = "return" /\ op = "allocate" /\ ret = 0 /\ self = a)
              /\ (~InList(allocations', a) /\ InList(allocations, a))
                     <=> (pc = "return" /\ op = "unallocate" /\ ret = 0 /\ self = a)
         ]_vars

\* The third operation of a run removed a record that holds a cached nonce
\* from the list by a successful unallocate; the record stays active.
C11_Witness ==
    /\ pc = "done" /\ op = "unallocate" /\ self # 0 /\ ret = 0
    /\ allocs[self].active
    /\ ~InList(allocations, self)
    /\ InList(pre.allocations, self)
    /\ pre.rec.nonce # NULL
    /\ rounds = 3

\* The outcome r of a send is an error response other than a 401 that
\* carries both realm and nonce.
OtherError(r) ==
    /\ r # NULL
    /\ r[1].error
    /\ (r[1].code # 401 \/ r[1].realm = NULL \/ r[1].nonce = NULL)

\* C12: an error response that is not a 401 with both realm and nonce ends
\* the round with ret = -2: it is the last response, no request follows, the
\* record's realm and nonce stay what they were when it arrived, and an
\* allocate in that round returns the invalid id.
C12_Rejected ==
    /\ \A k \in 1..Len(received) :
           (k < Len(received)) => ~OtherError(received[k])
    /\ (RoundOver /\ Len(received) >= 1
          /\ OtherError(received[Len(received)])) =>
        /\ ret = -2
        /\ Len(sent) = Len(received)
        /\ Len(received) = 1 =>
               /\ allocs[self].realm = pre.rec.realm
               /\ allocs[self].nonce = pre.rec.nonce
        /\ (Len(received) = 2 /\ ~allocs[self].destroyed) =>
               /\ allocs[self].realm = received[1][1].realm
               /\ allocs[self].nonce = received[1][1].nonce
        /\ (pc = "done" /\ op = "allocate") =>
               /\ result = TNET_TURN_INVALID_ALLOCATION_ID
               /\ allocs[self].destroyed

\* An allocate ended on a first response 401 that carries a nonce but no realm.
C12_Witness ==
    /\ pc = "done" /\ op = "allocate" /\ self # 0
    /\ Len(received) = 1
    /\ received[1] # NULL
    /\ received[1][1].error
    /\ received[1][1].code = 401
    /\ received[1][1].realm = NULL
    /\ received[1][1].nonce # NULL
    /\ Len(sent) = 1
    /\ result = TNET_TURN_INVALID_ALLOCATION_ID

\* The kind of outcome of the operation that is in progress or just done.
Kind == OutcomeKind(self, IF self = 0 THEN NoRecord ELSE allocs[self], received)

\* C13: every operation's result tells the kinds of outcome apart: a failed
\* unallocate does not return what an unallocate with a null argument
\* returns, and two allocate calls that returned the same value ended with
\* the same kind of outcome.
C13_TaggedOutcome ==
    /\ \A i, j \in 1..Len(returned) :
           returned[i].id = returned[j].id => returned[i].kind = returned[j].kind
    /\ (pc = "done" /\ op = "unallocate" /\ self # 0 /\ ret # 0) => result # -1

\* C13 as amended: the round returns 0 on success and one code per kind of
\* failure (-1 not datagram, -2 rejected, -3 stale credentials, -4 no
\* response), which a refresh hands to its caller; allocate returns the
\* record's id on success and the invalid id for every kind of failure;
\* unallocate returns 0 on success and -1 for every kind of failure.
C13_Outcomes ==
    /\ RoundOver =>
           ret = CASE Kind = "Success" -> 0
                   [] Kind = "UnsupportedTransport" -> -1
                   [] Kind = "Rejected" -> -2
                   [] Kind = "StaleCredentials" -> -3
                   [] Kind = "TransportFailure" -> -4
    /\ (pc = "done" /\ op = "refresh") => result = ret
    /\ (pc = "done" /\ op = "allocate") =>
           /\ (Kind = "Success") <=> (result # TNET_TURN_INVALID_ALLOCATION_ID)
           /\ (Kind # "Success") => result = TNET_TURN_INVALID_ALLOCATION_ID
    /\ (pc = "done" /\ op = "unallocate") =>
           /\ (Kind = "Success") <=> (result = 0)
           /\ (Kind # "Success") => result = -1

\* Two allocate calls failed for different reasons (no response, stale
\* credentials) and both returned the invalid id.
C13_Witness ==
    /\ pc = "done" /\ op = "allocate"
    /\ Len(returned) = 2
    /\ returned[1].kind = "TransportFailure"
    /\ returned[2].kind = "StaleCredentials"
    /\ returned[1].id = returned[2].id
    /\ ret = -3

\* C14: a round on a record that is not datagram builds one request, hands
\* nothing to the network, leaves timeout, realm and nonce of the record as
\* they were and returns -1, a code no datagram round returns.
C14_StreamRound ==
    /\ (self # 0 /\ pc \in {"build", "send", "classify", "exit", "return"}
          /\ ~TNET_SOCKET_TYPE_IS_DGRAM(allocs[self].socket_type)) =>
        /\ sent = <<>>
        /\ received = <<>>
        /\ response = NULL
        /\ pc \notin {"send", "classify"}
    /\ (RoundOver /\ ~TNET_SOCKET_TYPE_IS_DGRAM(allocs[self].socket_type)) =>
        /\ created = 1
        /\ freed = 1
        /\ sent = <<>>
        /\ ret = -1
        /\ allocs[self].timeout = pre.rec.timeout
        /\ allocs[self].realm = pre.rec.realm
        /\ allocs[self].nonce = pre.rec.nonce
    /\ (RoundOver /\ TNET_SOCKET_TYPE_IS_DGRAM(allocs[self].socket_type)) =>
        /\ ret \in {0, -2, -3, -4}
        /\ Len(sent) >= 1

\* An allocate on a stream record is over: one request built, none sent.
C14_Witness ==
    /\ pc = "done" /\ op = "allocate" /\ self # 0
    /\ ~TNET_SOCKET_TYPE_IS_DGRAM(allocs[self].socket_type)
    /\ created = 1
    /\ sent = <<>>
    /\ ret = -1
    /\ result = TNET_TURN_INVALID_ALLOCATION_ID

\* Number of responses the sends of this round returned.
ResponsesReceived == Len(SelectSeq(received, LAMBDA r : r # NULL))

\* C15: the messages constructed and not yet released are exactly the
\* request and response the running attempt holds, at most one of each;
\* nothing is live when a request is about to be constructed (first attempt
\* or retry) nor when the round has returned, and no more messages were
\* released than constructed.
C15_MessageOwnership ==
    /\ created - freed = Len(request) + Len(response)
    /\ Len(request) <= 1
    /\ Len(response) <= 1
    /\ freed <= created
    /\ pc = "build" => (created = freed /\ request = NULL /\ response = NULL)
    /\ pc \in {"return", "done"} =>
           (created = freed /\ request = NULL /\ response = NULL)
    /\ (RoundOver /\ TNET_SOCKET_TYPE_IS_DGRAM(allocs[self].socket_type)) =>
           created = Len(sent) + ResponsesReceived

\* The retried request is about to be constructed: the first request and
\* its response were constructed and both are released.
C15_Witness ==
    /\ pc = "build"
    /\ depth = 1
    /\ created = 2
    /\ freed = 2
    /\ request = NULL
    /\ response = NULL

\* C16: every request of a round is an allocate request when the record's
\* active flag is unset and a refresh request when it is set; the requests
\* of an allocate, the retry included, are allocate requests and those of an
\* unallocate, the retry included, are refresh requests with lifetime 0.
C16_RequestKind ==
    /\ (request # NULL /\ self # 0) =>
           request[1].type = IF allocs[self].active
                             THEN "stun_refresh_request"
                             ELSE "stun_allocate_request"
    /\ \A k \in 1..Len(sent) :
           /\ sent[k].type = IF pre.rec.active
                             THEN "stun_refresh_request"
                             ELSE "stun_allocate_request"
           /\ op = "allocate" => sent[k].type = "stun_allocate_request"
           /\ op = "refresh" => sent[k].type = "stun_refresh_request"
           /\ op = "unallocate" =>
                  /\ sent[k].type = "stun_refresh_request"
                  /\ sent[k].lifetime = 0
    /\ (self # 0 /\ pc \in {"build", "send", "classify", "exit", "return"}) =>
           allocs[self].active = pre.rec.active

\* An unallocate of a record with timeout 600 sent a request and a retry.
C16_Witness ==
    /\ pc = "done" /\ op = "unallocate" /\ self # 0
    /\ Len(sent) = 2
    /\ sent[2].type = "stun_refresh_request"
    /\ sent[2].lifetime = 0
    /\ pre.rec.timeout = 600

\* C17: realm and nonce of a record are both absent or both present; until
\* the record is released they change only when a 401 carrying both arrives at a record that holds no
\* nonce, and then become that response's realm and nonce; every request
\* carries the realm and nonce the record holds when it is built.
C17_CachedCredentials ==
    /\ [](/\ \A a \in 1..Len(allocs) :
                (allocs[a].realm = NULL) <=> (allocs[a].nonce = NULL)
          /\ (request # NULL /\ self # 0) =>
                /\ request[1].realm = allocs[self].realm
                /\ request[1].nonce = allocs[self].nonce
          /\ Len(sent) >= 1 =>
                /\ sent[1].realm = pre.rec.realm
                /\ sent[1].nonce = pre.rec.nonce
          /\ Len(sent) >= 2 =>
                /\ sent[2].realm = received[1][1].realm
                /\ sent[2].nonce = received[1][1].nonce
                /\ sent[2].nonce # NULL
                /\ ~allocs[self].destroyed =>
                       /\ sent[2].realm = allocs[self].realm
                       /\ sent[2].nonce = allocs[self].nonce)
    /\ [][ \A a \in 1..Len(allocs) :
              (/\ ~allocs'[a].destroyed
               /\ \/ allocs'[a].nonce # allocs[a].nonce
                  \/ allocs'[a].realm # allocs[a].realm) =>
                  /\ pc = "classify"
                  /\ a = self
                  /\ allocs[a].nonce = NULL
                  /\ response # NULL
                  /\ response[1].error
                  /\ response[1].code = 401
                  /\ response[1].realm # NULL
                  /\ response[1].nonce # NULL
                  /\ allocs'[a].nonce = response[1].nonce
                  /\ allocs'[a].realm = response[1].realm
         ]_vars

\* A refresh succeeded on a record that cached ("example.org", "abc123") in
\* an earlier round; its request carried both.
C17_Witness ==
    /\ pc = "done" /\ op = "refresh" /\ ret = 0
    /\ pre.rec.realm = Str("example.org")
    /\ pre.rec.nonce = Str("abc123")
    /\ Len(sent) = 1
    /\ sent[1].realm = Str("example.org")
    /\ sent[1].nonce = Str("abc123")
    /\ allocs[self].nonce = Str("abc123")

\* C18: provided every step of a running call is taken (each blocking send
\* returns), a round that has started returns to its caller with one of the
\* terminal classifications, whatever the server answers.
C18_RoundTerminates ==
    (pc = "build") ~>
        (/\ pc = "done"
         /\ ret \in {0, -1, -2, -3, -4}
         /\ Kind \in {"Success", "Rejected", "StaleCredentials",
                      "TransportFailure", "UnsupportedTransport"}
         /\ request = NULL
         /\ response = NULL)

\* A round that was challenged, retried and then got no response is done.
C18_Witness ==
    /\ pc = "done"
    /\ self # 0
    /\ depth = 1
    /\ Len(received) = 2
    /\ received[2] = NULL
    /\ ret = -4

\* C19: the record tnet_turn_allocate creates has the socket type passed as
\* its socket_type argument, and that argument decides whether the round
\* sends its request or fails without sending.
C19_TransportKindArgument ==
    (op = "allocate" /\ self # 0
       /\ pc \in {"build", "send", "classify", "exit", "return"}) =>
        /\ allocs[self].socket_type = arg
        /\ pc = "return" => ((sent = <<>>) <=> ~TNET_SOCKET_TYPE_IS_DGRAM(arg))

\* C20: when two threads run tnet_turn_allocate concurrently, the records
\* they create have distinct ids and two successful calls never return the
\* same id, under every interleaving of their steps.
C20_ConcurrentDistinctIds ==
    /\ \A a, b \in 1..Len(allocs) : a # b => allocs[a].id # allocs[b].id
    /\ \A i, j \in 1..Len(returned) :
           (i # j /\ returned[i].ok /\ returned[j].ok)
               => returned[i].id # returned[j].id

====
